---- MODULE Spec2Model ----
(***************************************************************************)
(* Model of the experiment/agent orchestration layer of vibe-controller:   *)
(* the Agent State Registry (server/src/agent/state.ts), the Agent Runner  *)
(* (server/src/agent/agent.ts), the Experiment Store                       *)
(* (server/src/filesystem.ts) and the HTTP handlers that drive them        *)
(* (server/src/routes/experiment.ts).                                      *)
(*                                                                         *)
(* The specifications share the variables:                                 *)
(*   RegSpec    the registry driven directly through its public methods,   *)
(*   Spec       the server: HTTP requests and child-process events,        *)
(*   LiveSpec   Spec where every agent process spawned eventually exits,   *)
(*   StoreSpec  the telemetry endpoints of the HTTP layer,                 *)
(*   FsSpec     the store functions called directly on a directory,        *)
(*   RootSpec   the project-root search, step by step,                     *)
(*   TeleSpec   the follow-up simulation run and its telemetry batches,    *)
(*   RestartSpec  experiments started again while their agents run.        *)
(***************************************************************************)
EXTENDS Integers, Sequences, FiniteSets, TLC

VARIABLES
    states,     \* AgentStateManager.states : Map<string, AgentState>
    now,        \* the wall clock read by new Date()
    ret,        \* return value of the last registry method called directly
    pre,        \* the registry as it was before the last operation
    preProcs,   \* the process table as it was before the last operation
    last,       \* the last operation carried out: [op, id]
    files,      \* experiments/<id>/experiment.json : id -> text of the file
    preFiles,   \* the files as they were before the last operation
    search,     \* the project-root search: its position and local variable
    procs,      \* the agent (claude) child processes spawned so far
    startEnv,   \* per id, the environment met by the last start_experiment
    resp,       \* the last HTTP response sent
    nCalls,     \* number of requests / direct calls made so far
    server      \* the server process: alive or not, and the batch POSTs of
                \* its simulation runs with what became of each

vars ==
    <<states, now, ret, pre, preProcs, last, files, preFiles, search, procs,
      startEnv, resp, nCalls, server>>

-----------------------------------------------------------------------------
(* Bounds of the model *)

MaxTime == 1        \* the clock runs over 0..MaxTime
MaxCalls == 4       \* direct registry calls in a behaviour of RegSpec
MaxRequests == 2    \* start and stop requests in a behaviour of Spec
MaxProcs == 1       \* agent processes spawned in a behaviour of Spec
MaxChunks == 1      \* output chunks delivered per child process
MaxPoints == 3      \* telemetry points held by one experiment document
MaxFsCalls == 3     \* direct calls of the store functions in FsSpec

Ids == {"e1", "e2"}

-----------------------------------------------------------------------------
(* server/src/agent/state.ts *)

\* AgentMessage['type']
MsgTypes == {"info", "warning", "error", "success"}

\* the absent optional field `error?: string`
Undefined == <<"undefined">>

\* Map.prototype.set
MapSet(S, id, rec) ==
    [k \in (DOMAIN S) \cup {id} |-> IF k = id THEN rec ELSE S[k]]

\* Map.prototype.delete
MapDelete(S, id) == [k \in (DOMAIN S) \ {id} |-> S[k]]

\* { ...state, ...update }: the fields update carries replace those of state
Spread(state, update) ==
    [f \in DOMAIN state |-> IF f \in DOMAIN update THEN update[f] ELSE state[f]]

\* A method result: the map afterwards and the value returned.  A value of
\* type `AgentState | null` is the set holding the record, or {} for null.
createState_merge(S, id, t) ==
    LET state == [id |-> id, status |-> "running", startTime |-> t,
                  lastUpdate |-> t, error |-> Undefined,
                  messages |-> IF id \in DOMAIN S THEN S[id].messages ELSE <<>>]
    IN  [states |-> MapSet(S, id, state), ret |-> {state}]

createState(S, id, t) ==
    LET state == [id |-> id, status |-> "running", startTime |-> t,
                  lastUpdate |-> t, error |-> Undefined, messages |-> <<>>]
    IN  [states |-> MapSet(S, id, state), ret |-> {state}]

addMessage_recompute(S, id, content, type, t) ==
    IF id \notin DOMAIN S THEN [states |-> S, ret |-> {}]
    ELSE LET state == S[id]
             message == [timestamp |-> t, content |-> content, type |-> type]
             updatedState ==
                 [state EXCEPT !.messages = Append(@, message),
                               !.lastUpdate = t,
                               !.status = IF type = "error" THEN "error" ELSE @]
         IN  [states |-> MapSet(S, id, updatedState), ret |-> {updatedState}]

addMessage_revive(S, id, content, type, t) ==
    IF id \notin DOMAIN S THEN [states |-> S, ret |-> {}]
    ELSE LET state == S[id]
             message == [timestamp |-> t, content |-> content, type |-> type]
             updatedState ==
                 [state EXCEPT !.messages = Append(@, message),
                               !.lastUpdate = t,
                               !.status = IF type = "error" THEN "error"
                                          ELSE "running"]
         IN  [states |-> MapSet(S, id, updatedState), ret |-> {updatedState}]

addMessage_upsert(S, id, content, type, t) ==
    LET state == IF id \in DOMAIN S THEN S[id] ELSE createState(S, id, t).states[id]
        message == [timestamp |-> t, content |-> content, type |-> type]
        updatedState == [state EXCEPT !.messages = Append(@, message),
                                      !.lastUpdate = t]
    IN  [states |-> MapSet(S, id, updatedState),
         ret |-> IF id \in DOMAIN S THEN {updatedState} ELSE {}]

addMessage(S, id, content, type, t) ==
    IF id \notin DOMAIN S THEN [states |-> S, ret |-> {}]
    ELSE LET state == S[id]
             message == [timestamp |-> t, content |-> content, type |-> type]
             updatedState == [state EXCEPT !.messages = Append(@, message),
                                           !.lastUpdate = t]
         IN  [states |-> MapSet(S, id, updatedState), ret |-> {updatedState}]

updateState_stale(S, id, update, t) ==
    IF id \notin DOMAIN S THEN [states |-> S, ret |-> {}]
    ELSE LET updatedState == Spread(S[id], update)
         IN  [states |-> MapSet(S, id, updatedState), ret |-> {updatedState}]

\* updateState that keeps one status for the whole registry: the update is
\* spread over every record
updateState_global(S, id, update, t) ==
    IF id \notin DOMAIN S THEN [states |-> S, ret |-> {}]
    ELSE LET all == [k \in DOMAIN S |->
                        [Spread(S[k], update) EXCEPT !.lastUpdate = t]]
         IN  [states |-> all, ret |-> {all[id]}]

updateState(S, id, update, t) ==
    IF id \notin DOMAIN S THEN [states |-> S, ret |-> {}]
    ELSE LET state == S[id]
             updatedState == [Spread(state, update) EXCEPT !.lastUpdate = t]
         IN  [states |-> MapSet(S, id, updatedState), ret |-> {updatedState}]

getState(S, id) == IF id \in DOMAIN S THEN {S[id]} ELSE {}

deleteState(S, id) == [states |-> MapDelete(S, id), ret |-> id \in DOMAIN S]

-----------------------------------------------------------------------------
(* Values shared by the two specifications *)

EmptyMap == [k \in {} |-> {}]

NoResp ==
    [op |-> "none", id |-> "", code |-> 0, status |-> "", message |-> "",
     log |-> <<>>]

\* what `last` records: the operation, its id, the time it ran at (for the
\* direct calls of RegSpec), its
\* argument (the message type of addMessage, the exit code of a close event,
\* the branch a start request took) and the update object of updateState
Op(op, id) ==
    [op |-> op, id |-> id, arg |-> "", update |-> EmptyMap, at |-> now]
OpArg(op, id, arg) ==
    [op |-> op, id |-> id, arg |-> arg, update |-> EmptyMap, at |-> now]
Ev(op, id, arg) ==
    [op |-> op, id |-> id, arg |-> arg, update |-> EmptyMap, at |-> 0]
OpUpd(op, id, update) ==
    [op |-> op, id |-> id, arg |-> "", update |-> update, at |-> now]
\* a stdout event: `update` holds the lines of the chunk delivered
EvChunk(op, id, chunk) ==
    [op |-> op, id |-> id, arg |-> "", update |-> chunk, at |-> 0]

\* the directory holding the marker file .root
RootPath == <<"workspace">>

\* the server process after start-up: alive, no batch POST issued
Serving == [up |-> TRUE, posts |-> <<>>]

\* the project-root search after it returned RootPath, from a working
\* directory holding the marker: the state every request of a serving
\* process finds it in
Resolved ==
    [pc |-> "returned", startDir |-> RootPath, marked |-> {RootPath},
     currentDir |-> RootPath, result |-> {RootPath}]

Init ==
    /\ states = EmptyMap
    /\ now = 0
    /\ ret = {}
    /\ pre = EmptyMap
    /\ preProcs = <<>>
    /\ last = [op |-> "init", id |-> "", arg |-> "", update |-> EmptyMap,
               at |-> 0]
    /\ files = EmptyMap
    /\ preFiles = EmptyMap
    /\ search = Resolved
    /\ procs = <<>>
    /\ startEnv = EmptyMap
    /\ resp = NoResp
    /\ nCalls = 0
    /\ server = Serving

\* time passes between two events
Tick ==
    /\ now < MaxTime
    /\ now' = now + 1
    /\ UNCHANGED <<states, ret, pre, preProcs, last, files, preFiles, search,
                   procs, startEnv, resp, nCalls, server>>

-----------------------------------------------------------------------------
(* RegSpec: the registry called directly, as a unit test would *)

Contents == {<<"x">>}

\* update objects of type Partial<Omit<AgentState, 'messages'>>
Updates ==
    { EmptyMap,
      [status |-> "completed"],
      [status |-> "error", error |-> <<"boom">>],
      [startTime |-> 0],
      [lastUpdate |-> 0] }

RegFrame ==
    UNCHANGED <<now, files, preFiles, search, procs, preProcs, startEnv, resp,
                server>>

RCreateState(id) ==
    /\ nCalls < MaxCalls
    /\ LET r == createState(states, id, now)
       IN  states' = r.states /\ ret' = r.ret /\ pre' = states
    /\ last' = Op("createState", id)
    /\ nCalls' = nCalls + 1
    /\ RegFrame

RAddMessage(id, content, type) ==
    /\ nCalls < MaxCalls
    /\ LET r == addMessage(states, id, content, type, now)
       IN  states' = r.states /\ ret' = r.ret /\ pre' = states
    /\ last' = OpArg("addMessage", id, type)
    /\ nCalls' = nCalls + 1
    /\ RegFrame

RUpdateState(id, update) ==
    /\ nCalls < MaxCalls
    /\ LET r == updateState(states, id, update, now)
       IN  states' = r.states /\ ret' = r.ret /\ pre' = states
    /\ last' = OpUpd("updateState", id, update)
    /\ nCalls' = nCalls + 1
    /\ RegFrame

RGetState(id) ==
    /\ nCalls < MaxCalls
    /\ ret' = getState(states, id)
    /\ pre' = states
    /\ last' = Op("getState", id)
    /\ nCalls' = nCalls + 1
    /\ UNCHANGED states
    /\ RegFrame

RDeleteState(id) ==
    /\ nCalls < MaxCalls
    /\ LET r == deleteState(states, id)
       IN  states' = r.states /\ ret' = {r.ret} /\ pre' = states
    /\ last' = Op("deleteState", id)
    /\ nCalls' = nCalls + 1
    /\ RegFrame

RegNext ==
    \/ Tick
    \/ \E id \in Ids : RCreateState(id)
    \/ \E id \in Ids, content \in Contents, type \in MsgTypes :
          RAddMessage(id, content, type)
    \/ \E id \in Ids, update \in Updates : RUpdateState(id, update)
    \/ \E id \in Ids : RGetState(id)
    \/ \E id \in Ids : RDeleteState(id)

RegSpec == Init /\ [][RegNext]_vars

-----------------------------------------------------------------------------
(* server/src/filesystem.ts: paths are sequences of segments *)

pathJoin(dir, seg) == Append(dir, seg)

\* path.resolve(dir, '..')
pathParent(dir) == IF Len(dir) > 1 THEN SubSeq(dir, 1, Len(dir) - 1) ELSE dir

getExperimentsPath == pathJoin(RootPath, "experiments")

ensureExperimentDir(experimentId) == pathJoin(getExperimentsPath, experimentId)

\* The text of a JSON file: ok says whether JSON.parse accepts it, members
\* are the members of the object it denotes, in the order written.
\* JSON.stringify(data, null, 2) of an object writes one member per own
\* property, in property order; the values written here (strings, finite
\* numbers, arrays and objects born from JSON) are carried as they are.
MemberOrder == <<"id", "instructions", "status", "startTime", "testData">>

RECURSIVE membersOf(_, _)
membersOf(data, keys) ==
    IF keys = <<>> THEN <<>>
    ELSE IF Head(keys) \in DOMAIN data
    THEN <<[key |-> Head(keys), value |-> data[Head(keys)]]>>
            \o membersOf(data, Tail(keys))
    ELSE membersOf(data, Tail(keys))

jsonStringify(data) == [ok |-> TRUE, members |-> membersOf(data, MemberOrder)]

\* JSON.parse: the object holding the members of the text (a set holding it),
\* or {} when it throws
jsonParse(text) ==
    IF ~text.ok THEN {}
    ELSE LET ms == text.members
         IN  { [k \in {ms[i].key : i \in DOMAIN ms} |->
                   ms[CHOOSE i \in DOMAIN ms : ms[i].key = k].value] }

saveExperiment_merge(F, experimentId, data) ==
    LET old == IF experimentId \in DOMAIN F /\ F[experimentId].exists
               THEN jsonParse(F[experimentId].text) ELSE {}
        merged == IF old = {} THEN data
                  ELSE LET o == CHOOSE d \in old : TRUE
                       IN  [k \in DOMAIN o \cup DOMAIN data |->
                               IF k \in DOMAIN data THEN data[k] ELSE o[k]]
    IN  MapSet(F, experimentId, [exists |-> TRUE, text |-> jsonStringify(merged)])

\* F maps the directories under experiments/ to their experiment.json:
\* whether the file exists, and its text.
\* saveExperiment: the directory is ensured and experiment.json of
\* experimentId is overwritten with the text of data
saveExperiment(F, experimentId, data) ==
    MapSet(F, experimentId, [exists |-> TRUE, text |-> jsonStringify(data)])

\* loadExperiment: the parsed document (a set holding it), or {} for the
\* null it returns when the file cannot be read or parsed
loadExperiment(F, experimentId) ==
    IF experimentId \notin DOMAIN F \/ ~F[experimentId].exists THEN {}
    ELSE jsonParse(F[experimentId].text)

\* new Date(t).toISOString() and new Date(s).getTime()
toISOString(t) == <<"ISO", t>>
dateGetTime(s) == s[2]

-----------------------------------------------------------------------------
(* server/src/agent/agent.ts: startAgent *)

\* what a start request meets on the machine: the template directory
\* (absent, present but the copy throws, copied but the result is no
\* directory, staged) and the agent executable (`which claude` fails, the
\* path it prints does not exist, present)
Stagings == {"no_template", "copy_failed", "not_dir", "ok"}
Claudes == {"not_on_path", "dangling", "ok"}
StartEnvs == [staging : Stagings, claude : Claudes]

ClaudePath == <<"usr", "bin", "claude">>

\* a child process just spawned: no output delivered, no exit yet, and no
\* follow-up simulation (drone) process; testData is the buffer of the
\* simulation run's stdout listener and parsed counts the points it built
NewProc(id) ==
    [id |-> id, phase |-> "running", chunks |-> 0,
     drone |-> "none", dchunks |-> 0, testData |-> <<>>, parsed |-> 0]

\* the pair every failure branch runs: addMessage(id, content, 'error') then
\* updateState(id, { status: 'error', error })
recordError_logOnly(S, id, content, error, t) ==
    addMessage(S, id, content, "error", t).states

recordError(S, id, content, error, t) ==
    updateState(addMessage(S, id, content, "error", t).states, id,
                [status |-> "error", error |-> error], t).states

\* the result of startAgent: the registry and the process table afterwards,
\* whether it threw to its caller, and the branch it returned from
Returned(S, P, branch) ==
    [states |-> S, procs |-> P, threw |-> FALSE, branch |-> branch]

\* steps 0 and 1 of startAgent: stage the template and verify the staged
\* directory.  branch "ok" means startAgent goes on.
stageTemplate(S, id, directory, env, t) ==
    LET droneChallengeSrcPath ==
            pathJoin(pathParent(pathParent(directory)), "drone-challenge")
        droneChallengeDestPath == pathJoin(directory, "drone-challenge")
    IN
    IF env.staging = "no_template" THEN
        LET errorMsg == <<"Source drone-challenge directory not found at: ">>
                            \o droneChallengeSrcPath
        IN  [states |-> recordError(S, id, errorMsg, errorMsg, t),
             branch |-> "no_template"]
    ELSE IF env.staging = "copy_failed" THEN
        LET errorMsg == <<"Failed to copy drone-challenge directory: ", "EACCES">>
        IN  [states |-> recordError(S, id, errorMsg, errorMsg, t),
             branch |-> "copy_failed"]
    ELSE
    LET S1 == addMessage(S, id, <<"Copied 'drone-challenge' to: ">>
                                    \o droneChallengeDestPath, "info", t).states
    IN
    IF env.staging = "not_dir" THEN
        [states |-> recordError(S1, id,
                        <<"Experiment drone-challenge directory not found: ">>
                            \o droneChallengeDestPath,
                        <<"Directory not found: ">> \o droneChallengeDestPath, t),
         branch |-> "not_dir"]
    ELSE [states |-> S1, branch |-> "ok"]

\* steps 2 and 3 of startAgent, after createState and the "starting"
\* message: resolve the claude binary and spawn it
resolveAndSpawn_noReturn(S, P, id, env, t) ==
    LET errorMsg ==
            <<"Could not locate claude on PATH. Install it or adjust PATH.">>
        S1 == IF env.claude = "ok" THEN S
              ELSE recordError(S, id, errorMsg, errorMsg, t)
    IN  Returned(addMessage(S1, id, <<"Using claude at: ">> \o ClaudePath,
                            "info", t).states,
                 Append(P, NewProc(id)),
                 IF env.claude = "ok" THEN "spawned" ELSE "no_claude")

resolveAndSpawn(S, P, id, env, t) ==
    IF env.claude = "not_on_path" THEN
        LET errorMsg ==
                <<"Could not locate claude on PATH. Install it or adjust PATH.">>
        IN  Returned(recordError(S, id, errorMsg, errorMsg, t), P, "no_claude")
    ELSE IF env.claude = "dangling" THEN
        LET errorMsg == <<"Claude binary not found at: ">> \o ClaudePath
        IN  Returned(recordError(S, id, errorMsg, errorMsg, t), P,
                     "dangling_claude")
    ELSE
        Returned(addMessage(S, id, <<"Using claude at: ">> \o ClaudePath,
                            "info", t).states,
                 Append(P, NewProc(id)), "spawned")

\* createState(id) and the "starting" message, then steps 2 and 3
createAndSpawn(S, P, id, env, t) ==
    resolveAndSpawn(
        addMessage(createState(S, id, t).states, id,
                   <<"Starting agent process...">>, "info", t).states,
        P, id, env, t)

startAgent_rethrow(S, P, id, directory, env, t) ==
    LET staged == stageTemplate(S, id, directory, env, t)
    IN  IF env.staging = "copy_failed"
        THEN [states |-> S, procs |-> P, threw |-> TRUE, branch |-> "copy_failed"]
        ELSE IF staged.branch # "ok"
        THEN Returned(staged.states, P, staged.branch)
        ELSE createAndSpawn(staged.states, P, id, env, t)

startAgent(S, P, id, directory, env, t) ==
    LET staged == stageTemplate(S, id, directory, env, t)
    IN  IF staged.branch # "ok"
        THEN Returned(staged.states, P, staged.branch)
        ELSE createAndSpawn(staged.states, P, id, env, t)

-----------------------------------------------------------------------------
(* server/src/agent/agent.ts: the handlers of the agent child process *)

\* One line of the agent's stdout, by what the handler reads of it: whether
\* it starts with '[', what JSON.parse makes of it ("invalid": it throws,
\* "object": a value with no content array, "message": a value with one) and
\* the content parts of a message.
Lines ==
    { [raw |-> "[", startsBracket |-> TRUE, json |-> "invalid", parts |-> <<>>],
      [raw |-> "{text:hello}", startsBracket |-> FALSE, json |-> "message",
       parts |-> <<[type |-> "text", text |-> "hello"]>>],
      [raw |-> "{text:a,tool_use,text:b}", startsBracket |-> FALSE,
       json |-> "message",
       parts |-> <<[type |-> "text", text |-> "a"],
                   [type |-> "tool_use", text |-> ""],
                   [type |-> "text", text |-> "b"]>>],
      [raw |-> "{tool_use}", startsBracket |-> FALSE, json |-> "message",
       parts |-> <<[type |-> "tool_use", text |-> ""]>>],
      [raw |-> "{type:system}", startsBracket |-> FALSE, json |-> "object",
       parts |-> <<>>],
      [raw |-> "oops", startsBracket |-> FALSE, json |-> "invalid",
       parts |-> <<>>] }

Line(raw) == CHOOSE l \in Lines : l.raw = raw

\* the chunks the agent delivers in Spec, as chunk.toString().trim()
\* .split('\n') cuts them: one that logs a message, one that fails to parse,
\* and one of three lines, the second of which logs nothing
Chunks ==
    { <<Line("{text:hello}")>>,
      <<Line("oops")>>,
      <<Line("{text:a,tool_use,text:b}"), Line("{tool_use}"), Line("oops")>> }

\* exit codes a child process closes with
ExitCodes == {"0", "1"}

\* parsed.content.filter(c => c.type === 'text').map(c => c.text).join(' ')
RECURSIVE joinText(_)
joinText(parts) ==
    IF parts = <<>> THEN <<>>
    ELSE LET rest == joinText(Tail(parts))
         IN  IF Head(parts).type # "text" THEN rest
             ELSE IF rest = <<>> THEN <<Head(parts).text>>
             ELSE <<Head(parts).text, " ">> \o rest

RECURSIVE onStdoutLines_lastFirst(_, _, _, _)
onStdoutLines_lastFirst(S, id, lines, t) ==
    IF lines = <<>> THEN S
    ELSE LET msg == Head(lines)
             content == joinText(msg.parts)
             S0 == onStdoutLines_lastFirst(S, id, Tail(lines), t)
         IN  IF msg.startsBracket THEN S0
             ELSE IF msg.json = "message"
             THEN IF content # <<>>
                  THEN addMessage(S0, id, content, "info", t).states
                  ELSE S0
             ELSE addMessage(S0, id, <<"Failed to parse message: ", msg.raw>>,
                             "warning", t).states

\* the body of the loop over the lines of a stdout chunk
RECURSIVE onStdoutLines(_, _, _, _)
onStdoutLines(S, id, lines, t) ==
    IF lines = <<>> THEN S
    ELSE LET msg == Head(lines)
             content == joinText(msg.parts)
             S1 == IF msg.startsBracket THEN S
                   ELSE IF msg.json = "message"
                   THEN IF content # <<>>
                        THEN addMessage(S, id, content, "info", t).states
                        ELSE S
                   ELSE addMessage(S, id, <<"Failed to parse message: ", msg.raw>>,
                                   "warning", t).states
         IN  onStdoutLines(S1, id, Tail(lines), t)

\* runDroneImplementation: spawn the simulation; a synchronous throw of
\* spawn is caught and logged.  Result: the registry and the drone's state.
runDroneImplementation(S, experimentId, spawnThrows, t) ==
    IF spawnThrows
    THEN [states |-> addMessage(S, experimentId,
                        <<"Error running drone: ", "spawn failed">>,
                        "error", t).states,
          drone |-> "none"]
    ELSE [states |-> S, drone |-> "running"]

\* claudeProc.on('close'): the registry and the drone's state afterwards
onClose_forgetStatus(S, id, code, spawnThrows, t) ==
    IF code = "0"
    THEN LET S1 == addMessage(S, id, <<"Claude exited successfully">>,
                              "success", t).states
             r == runDroneImplementation(S1, id, spawnThrows, t)
         IN  [states |-> updateState(r.states, id, [status |-> "completed"], t).states,
              drone |-> r.drone]
    ELSE [states |-> addMessage(S, id, <<"Claude exited with code ", code>>,
                                "error", t).states,
          drone |-> "none"]

onClose_noCompleted(S, id, code, spawnThrows, t) ==
    IF code = "0"
    THEN LET S1 == addMessage(S, id, <<"Claude exited successfully">>,
                              "success", t).states
             r == runDroneImplementation(S1, id, spawnThrows, t)
         IN  [states |-> r.states, drone |-> r.drone]
    ELSE LET errorMsg == <<"Claude exited with code ", code>>
         IN  [states |-> recordError(S, id, errorMsg, errorMsg, t),
              drone |-> "none"]

\* a close listener that leaves the status of a stopped experiment alone
onClose_keepEnded(S, id, code, spawnThrows, t) ==
    IF code = "0"
    THEN LET S1 == addMessage(S, id, <<"Claude exited successfully">>,
                              "success", t).states
             r == runDroneImplementation(S1, id, spawnThrows, t)
         IN  [states |-> IF id \in DOMAIN S /\ S[id].status = "ended"
                         THEN r.states
                         ELSE updateState(r.states, id,
                                          [status |-> "completed"], t).states,
              drone |-> r.drone]
    ELSE LET errorMsg == <<"Claude exited with code ", code>>
         IN  [states |-> IF id \in DOMAIN S /\ S[id].status = "ended"
                         THEN addMessage(S, id, errorMsg, "error", t).states
                         ELSE recordError(S, id, errorMsg, errorMsg, t),
              drone |-> "none"]

onClose(S, id, code, spawnThrows, t) ==
    IF code = "0"
    THEN LET S1 == addMessage(S, id, <<"Claude exited successfully">>,
                              "success", t).states
             r == runDroneImplementation(S1, id, spawnThrows, t)
         IN  [states |-> updateState(r.states, id, [status |-> "completed"], t).states,
              drone |-> r.drone]
    ELSE LET errorMsg == <<"Claude exited with code ", code>>
         IN  [states |-> recordError(S, id, errorMsg, errorMsg, t),
              drone |-> "none"]

-----------------------------------------------------------------------------
(* Spec: the server.  Each action is one callback run to completion by the
   event loop: an HTTP handler or a child-process event handler. *)

Instructions == {"hover at 5m"}

\* request bodies of POST /start_experiment: the schema wants a string id
\* and a string instructions
StartBodies ==
    [id : Ids, instructions : Instructions] \cup {[id |-> "e1"], EmptyMap}

Response(op, id, code, status, message, log) ==
    [op |-> op, id |-> id, code |-> code, status |-> status,
     message |-> message, log |-> log]

\* what every step of Spec records: the registry, the process table and the
\* files it started from; no registry method is called directly and the
\* project root stays resolved
Recorded ==
    /\ pre' = states
    /\ preProcs' = procs
    /\ preFiles' = files
    /\ UNCHANGED <<ret, search, server>>

\* POST /start_experiment, in a behaviour that spawns at most `limit` agent
\* processes
StartExperimentWithin(body, env, limit) ==
    /\ nCalls < MaxRequests
    /\ nCalls' = nCalls + 1
    /\ IF {"id", "instructions"} \subseteq DOMAIN body
       THEN LET id == body.id
                experimentData ==
                    [id |-> id, instructions |-> body.instructions,
                     status |-> "started", startTime |-> toISOString(now),
                     testData |-> <<>>]
                experimentsDir == ensureExperimentDir(id)
                r == startAgent(states, procs, id, experimentsDir, env, now)
            IN  /\ Len(r.procs) <= limit
                /\ files' = saveExperiment(files, id, experimentData)
                /\ states' = r.states
                /\ procs' = r.procs
                /\ startEnv' = MapSet(startEnv, id, env)
                /\ last' = Ev("start", id, r.branch)
                /\ resp' = IF r.threw
                           THEN Response("start", id, 500, "error", "unhandled", <<>>)
                           ELSE Response("start", id, 200, "success",
                                         "Experiment started", <<>>)
       ELSE /\ last' = Ev("start", "", "invalid")
            /\ resp' = Response("start", "", 400, "error", "Invalid request data", <<>>)
            /\ UNCHANGED <<files, states, procs, startEnv>>
    /\ UNCHANGED now
    /\ Recorded

\* POST /start_experiment that stages and starts the agent before it looks at
\* the body
StartExperiment_startFirst(body, env) ==
    /\ nCalls < MaxRequests
    /\ nCalls' = nCalls + 1
    /\ LET id == IF "id" \in DOMAIN body THEN body.id ELSE "e1"
           r == startAgent(states, procs, id, ensureExperimentDir(id), env, now)
       IN  /\ Len(r.procs) <= MaxProcs
           /\ states' = r.states
           /\ procs' = r.procs
           /\ startEnv' = MapSet(startEnv, id, env)
           /\ IF {"id", "instructions"} \subseteq DOMAIN body
              THEN /\ files' = saveExperiment(files, id,
                                  [id |-> id, instructions |-> body.instructions,
                                   status |-> "started",
                                   startTime |-> toISOString(now),
                                   testData |-> <<>>])
                   /\ last' = Ev("start", id, r.branch)
                   /\ resp' = IF r.threw
                              THEN Response("start", id, 500, "error", "unhandled", <<>>)
                              ELSE Response("start", id, 200, "success",
                                            "Experiment started", <<>>)
              ELSE /\ last' = Ev("start", "", "invalid")
                   /\ resp' = Response("start", "", 400, "error",
                                       "Invalid request data", <<>>)
                   /\ UNCHANGED files
    /\ UNCHANGED now
    /\ Recorded

\* POST /start_experiment
StartExperiment(body, env) == StartExperimentWithin(body, env, MaxProcs)

\* state.messages.map(...) of GET /get_experiment_state
transformedLog(messages) ==
    [i \in 1..Len(messages) |->
        [type |-> "assistant", content |-> messages[i].content,
         timestamp |-> messages[i].timestamp, status |-> messages[i].type]]

\* GET /get_experiment_state?id=...  ("" stands for a missing id).  The
\* handler only reads: it is the response the server gives at time t when
\* the registry is S.
getExperimentState(S, id, t) ==
    IF id = "" THEN Response("get", id, 400, "error", "", <<>>)
    ELSE LET state == getState(S, id)
         IN  IF state = {}
             THEN Response("get", id, 200, "pending", "",
                      <<[type |-> "assistant",
                         content |-> <<"Waiting for agent to start...">>,
                         timestamp |-> t, status |-> "pending"]>>)
             ELSE Response("get", id, 200, S[id].status, "",
                           transformedLog(S[id].messages))

StopExperiment_kill(id) ==
    /\ nCalls < MaxRequests
    /\ nCalls' = nCalls + 1
    /\ last' = Ev("stop", id, "")
    /\ IF id = ""
       THEN /\ resp' = Response("stop", id, 400, "error",
                                "Experiment ID is required", <<>>)
            /\ UNCHANGED <<states, procs>>
       ELSE /\ states' =
                  IF getState(states, id) # {}
                  THEN addMessage(
                           updateState(states, id,
                               [status |-> "ended",
                                error |-> <<"Experiment stopped by user">>],
                               now).states,
                           id, <<"Experiment stopped by user">>, "info", now).states
                  ELSE states
            /\ procs' = [p \in DOMAIN procs |->
                            IF procs[p].id = id
                            THEN [procs[p] EXCEPT !.phase = "closed"]
                            ELSE procs[p]]
            /\ resp' = Response("stop", id, 200, "success", "Experiment stopped", <<>>)
    /\ UNCHANGED <<now, files, startEnv>>
    /\ Recorded

\* POST /stop_experiment  ("" stands for a missing id)
StopExperiment(id) ==
    /\ nCalls < MaxRequests
    /\ nCalls' = nCalls + 1
    /\ last' = Ev("stop", id, "")
    /\ IF id = ""
       THEN /\ resp' = Response("stop", id, 400, "error",
                                "Experiment ID is required", <<>>)
            /\ UNCHANGED states
       ELSE /\ states' =
                  IF getState(states, id) # {}
                  THEN addMessage(
                           updateState(states, id,
                               [status |-> "ended",
                                error |-> <<"Experiment stopped by user">>],
                               now).states,
                           id, <<"Experiment stopped by user">>, "info", now).states
                  ELSE states
            /\ resp' = Response("stop", id, 200, "success", "Experiment stopped", <<>>)
    /\ UNCHANGED <<now, files, procs, startEnv>>
    /\ Recorded

\* frame of a child-process event: no request is answered by it
EventFrame ==
    /\ resp' = NoResp
    /\ UNCHANGED <<now, files, startEnv, nCalls>>
    /\ Recorded

\* a stdout listener that drops the output of a process whose experiment has
\* been started again since
ProcStdout_ownerOnly(p, chunk) ==
    /\ procs[p].phase = "running"
    /\ procs[p].chunks < MaxChunks
    /\ states' = IF \E q \in DOMAIN procs : q > p /\ procs[q].id = procs[p].id
                 THEN states
                 ELSE onStdoutLines(states, procs[p].id, chunk, now)
    /\ procs' = [procs EXCEPT ![p].chunks = @ + 1]
    /\ last' = EvChunk("stdout", procs[p].id, chunk)
    /\ EventFrame

\* claudeProc.stdout.on('data')
ProcStdout(p, chunk) ==
    /\ procs[p].phase = "running"
    /\ procs[p].chunks < MaxChunks
    /\ states' = onStdoutLines(states, procs[p].id, chunk, now)
    /\ procs' = [procs EXCEPT ![p].chunks = @ + 1]
    /\ last' = EvChunk("stdout", procs[p].id, chunk)
    /\ EventFrame

\* a stderr listener that takes output on stderr for a failure of the run
ProcStderr_asError(p, chunk) ==
    /\ procs[p].phase = "running"
    /\ procs[p].chunks < MaxChunks
    /\ states' = recordError(states, procs[p].id, <<chunk>>, <<chunk>>, now)
    /\ procs' = [procs EXCEPT ![p].chunks = @ + 1]
    /\ last' = Ev("stderr", procs[p].id, chunk)
    /\ EventFrame

\* claudeProc.stderr.on('data', "")
ProcStderr(p, chunk) ==
    /\ procs[p].phase = "running"
    /\ procs[p].chunks < MaxChunks
    /\ states' = addMessage(states, procs[p].id, <<chunk>>, "warning", now).states
    /\ procs' = [procs EXCEPT ![p].chunks = @ + 1]
    /\ last' = Ev("stderr", procs[p].id, chunk)
    /\ EventFrame

ProcError_logOnly(p) ==
    /\ procs[p].phase = "running"
    /\ procs[p].chunks = 0
    /\ LET errorMsg == <<"Failed to start Claude process: ", "spawn EACCES">>
       IN  states' = addMessage(states, procs[p].id, errorMsg, "error", now).states
    /\ procs' = [procs EXCEPT ![p].phase = "failed"]
    /\ last' = Ev("error", procs[p].id, "")
    /\ EventFrame

\* claudeProc.on('error'): the spawn failed; no output was or will be read
ProcError(p) ==
    /\ procs[p].phase = "running"
    /\ procs[p].chunks = 0
    /\ LET errorMsg == <<"Failed to start Claude process: ", "spawn EACCES">>
       IN  states' = recordError(states, procs[p].id, errorMsg, errorMsg, now)
    /\ procs' = [procs EXCEPT ![p].phase = "failed"]
    /\ last' = Ev("error", procs[p].id, "")
    /\ EventFrame

\* claudeProc.on('close'): after a failed spawn the code is the errno
ProcClose(p, code, spawnThrows) ==
    /\ \/ procs[p].phase = "running" /\ code \in ExitCodes
       \/ procs[p].phase = "failed" /\ code = "-13"
    /\ LET r == onClose(states, procs[p].id, code, spawnThrows, now)
       IN  /\ states' = r.states
           /\ procs' = [procs EXCEPT ![p].phase = "closed", ![p].drone = r.drone]
    /\ last' = Ev("close", procs[p].id, code)
    /\ EventFrame

\* droneProcess.stderr.on('data')
DroneStderr(p, data) ==
    /\ procs[p].drone = "running"
    /\ procs[p].dchunks < MaxChunks
    /\ states' = addMessage(states, procs[p].id, <<"Drone error: ">> \o data,
                            "error", now).states
    /\ procs' = [procs EXCEPT ![p].dchunks = @ + 1]
    /\ last' = Ev("drone_stderr", procs[p].id, "")
    /\ EventFrame

\* a close listener that sends what is left in the buffer before it logs
DroneClose_flush(p, code) ==
    /\ procs[p].drone = "running"
    /\ states' =
          IF code = "0"
          THEN addMessage(states, procs[p].id,
                   <<"Drone implementation completed successfully">>,
                   "success", now).states
          ELSE addMessage(states, procs[p].id,
                   <<"Drone implementation exited with code ", code>>,
                   "error", now).states
    /\ procs' = [procs EXCEPT ![p].drone = "closed", ![p].testData = <<>>]
    /\ server' = IF procs[p].testData = <<>> THEN server
                 ELSE [server EXCEPT
                          !.posts = Append(@,
                              [run |-> p,
                               req |-> [method |-> "POST",
                                        path |-> <<"api", "store_test_data">>,
                                        id |-> procs[p].id,
                                        body |-> [isArray |-> TRUE,
                                                  testData |-> procs[p].testData]],
                               fate |-> "pending", handler |-> ""])]
    /\ last' = Ev("drone_close", procs[p].id, code)
    /\ resp' = NoResp
    /\ pre' = states /\ preProcs' = procs /\ preFiles' = files
    /\ UNCHANGED <<now, files, startEnv, nCalls, ret, search>>

\* droneProcess.on('close', "")
DroneClose(p, code) ==
    /\ procs[p].drone = "running"
    /\ states' =
          IF code = "0"
          THEN addMessage(states, procs[p].id,
                   <<"Drone implementation completed successfully">>,
                   "success", now).states
          ELSE addMessage(states, procs[p].id,
                   <<"Drone implementation exited with code ", code>>,
                   "error", now).states
    /\ procs' = [procs EXCEPT ![p].drone = "closed"]
    /\ last' = Ev("drone_close", procs[p].id, code)
    /\ EventFrame

Next ==
    \/ Tick
    \/ \E body \in StartBodies, env \in StartEnvs : StartExperiment(body, env)
    \/ \E id \in Ids \cup {""} : StopExperiment(id)
    \/ \E p \in DOMAIN procs, chunk \in Chunks : ProcStdout(p, chunk)
    \/ \E p \in DOMAIN procs : ProcStderr(p, "stderr text")
    \/ \E p \in DOMAIN procs : ProcError(p)
    \/ \E p \in DOMAIN procs, code \in ExitCodes \cup {"-13"},
          spawnThrows \in BOOLEAN : ProcClose(p, code, spawnThrows)
    \/ \E p \in DOMAIN procs : DroneStderr(p, <<"Traceback">>)
    \/ \E p \in DOMAIN procs, code \in ExitCodes : DroneClose(p, code)

Spec == Init /\ [][Next]_vars

-----------------------------------------------------------------------------
(* StoreSpec: the telemetry store behind the HTTP layer, on a machine without
   the agent executable (no child process ever runs). *)

\* a telemetry sample accepted by droneTestDataSchema
Point(n) ==
    [position |-> [x |-> n, y |-> 0, z |-> 5],
     controls |-> [throttle |-> 0, pitch |-> 0, roll |-> 0],
     timestamp |-> toISOString(n)]

\* a sample without controls
BadPoint == [position |-> [x |-> 9, y |-> 0, z |-> 5], timestamp |-> toISOString(9)]

\* droneTestDataSchema.parse(point) does not throw
validPoint(point) ==
    /\ {"position", "controls", "timestamp"} \subseteq DOMAIN point
    /\ {"x", "y", "z"} \subseteq DOMAIN point.position
    /\ {"throttle", "pitch", "roll"} \subseteq DOMAIN point.controls

\* request bodies of POST /store_test_data: testData is an array or not
StoreBodies ==
    [isArray : {TRUE},
     testData : {<<>>, <<Point(1)>>, <<Point(2), Point(3)>>,
                 <<Point(1), BadPoint>>}]
        \cup {[isArray |-> FALSE, testData |-> <<>>]}

\* experiment.testData || []
testDataOf(experiment) ==
    IF "testData" \in DOMAIN experiment THEN experiment.testData ELSE <<>>

\* a handler that replaces the stored points by those of the request
storeTestData_noAppend(F, id, body) ==
    LET experiment == loadExperiment(F, id)
    IN  IF id = "" \/ ~body.isArray \/ \E i \in DOMAIN body.testData :
                                          ~validPoint(body.testData[i])
        THEN [files |-> F, code |-> 400]
        ELSE IF experiment = {} THEN [files |-> F, code |-> 404]
        ELSE LET doc == CHOOSE d \in experiment : TRUE
                 updated == [k \in DOMAIN doc \cup {"testData"} |->
                                IF k = "testData" THEN body.testData
                                ELSE doc[k]]
             IN  [files |-> saveExperiment(F, id, updated), code |-> 200]

\* a handler that loads the experiment first and validates each point as it
\* appends it
storeTestData_validateWhileAppending(F, id, body) ==
    IF id = "" THEN [files |-> F, code |-> 400]
    ELSE IF ~body.isArray THEN [files |-> F, code |-> 400]
    ELSE LET experiment == loadExperiment(F, id)
         IN  IF experiment = {} THEN [files |-> F, code |-> 404]
             ELSE LET doc == CHOOSE d \in experiment : TRUE
                      n == CHOOSE n \in 0..Len(body.testData) :
                              /\ \A i \in 1..n : validPoint(body.testData[i])
                              /\ n < Len(body.testData)
                                    => ~validPoint(body.testData[n + 1])
                      updated ==
                          [k \in DOMAIN doc \cup {"testData"} |->
                              IF k = "testData"
                              THEN testDataOf(doc) \o SubSeq(body.testData, 1, n)
                              ELSE doc[k]]
                  IN  [files |-> saveExperiment(F, id, updated),
                       code |-> IF n = Len(body.testData) THEN 200 ELSE 400]

\* POST /store_test_data?id=...  ("" stands for a missing id): the files
\* afterwards and the response
storeTestData(F, id, body) ==
    IF id = "" THEN [files |-> F, code |-> 400]
    ELSE IF ~body.isArray THEN [files |-> F, code |-> 400]
    ELSE IF \E i \in DOMAIN body.testData : ~validPoint(body.testData[i])
    THEN [files |-> F, code |-> 400]
    ELSE LET experiment == loadExperiment(F, id)
         IN  IF experiment = {} THEN [files |-> F, code |-> 404]
             ELSE LET doc == CHOOSE d \in experiment : TRUE
                      updated ==
                          [k \in DOMAIN doc \cup {"testData"} |->
                              IF k = "testData"
                              THEN testDataOf(doc) \o body.testData
                              ELSE doc[k]]
                  IN  [files |-> saveExperiment(F, id, updated), code |-> 200]

\* GET /get_test_data?id=...: the response
getTestData(F, id) ==
    IF id = "" THEN [code |-> 400, data |-> <<>>]
    ELSE LET experiment == loadExperiment(F, id)
         IN  IF experiment = {} THEN [code |-> 404, data |-> <<>>]
             ELSE [code |-> 200,
                   data |-> testDataOf(CHOOSE d \in experiment : TRUE)]

\* a request with a body: `update` holds the testData it carried
EvData(op, id, data) ==
    [op |-> op, id |-> id, arg |-> "", update |-> data, at |-> 0]

StoreTestData(id, body) ==
    LET r == storeTestData(files, id, body)
    IN  /\ \A k \in DOMAIN r.files :
              Len(getTestData(r.files, k).data) <= MaxPoints
        /\ files' = r.files
        /\ resp' = Response("store", id, r.code,
                            IF r.code = 200 THEN "success" ELSE "error", "", <<>>)
        /\ last' = EvData("store", id, body.testData)
        /\ UNCHANGED <<now, states, procs, startEnv, nCalls>>
        /\ Recorded

NoAgent == [staging |-> "ok", claude |-> "not_on_path"]

StoreNext ==
    \/ Tick
    \/ \E body \in StartBodies : StartExperiment(body, NoAgent)
    \/ \E id \in Ids \cup {""}, body \in StoreBodies : StoreTestData(id, body)

StoreSpec == Init /\ [][StoreNext]_vars

\* the agent process p exits: its close event is delivered
AgentExits(p) ==
    /\ p \in DOMAIN procs
    /\ \E code \in ExitCodes \cup {"-13"}, spawnThrows \in BOOLEAN :
          ProcClose(p, code, spawnThrows)

\* the server under the assumption that every agent process spawned
\* eventually exits
LiveSpec == Spec /\ \A p \in 1..MaxProcs : WF_vars(AgentExits(p))

-----------------------------------------------------------------------------
(* RootSpec: getRootPath run step by step.  A path is the sequence of its
   segments, <<>> being '/'.  search.pc is the position in searchForRoot:
   "while" at the loop test, "try" at the try block, "returned" after it. *)

DeepestDir == <<"home", "dev", "workspace", "server", "src">>

\* '/' and the directories below it down to DeepestDir
Dirs == {SubSeq(DeepestDir, 1, n) : n \in 0..Len(DeepestDir)}

\* process.cwd() is any of the directories, and any of them may hold .root
RootInit ==
    /\ search \in [pc : {"while"}, startDir : Dirs, marked : SUBSET Dirs,
                    currentDir : Dirs, result : {{}}]
    /\ search.currentDir = search.startDir
    /\ states = EmptyMap
    /\ now = 0
    /\ ret = {}
    /\ pre = EmptyMap
    /\ preProcs = <<>>
    /\ last = [op |-> "init", id |-> "", arg |-> "", update |-> EmptyMap,
               at |-> 0]
    /\ files = EmptyMap
    /\ preFiles = EmptyMap
    /\ procs = <<>>
    /\ startEnv = EmptyMap
    /\ resp = NoResp
    /\ nCalls = 0
    /\ server = Serving

RootFrame ==
    UNCHANGED <<states, now, ret, pre, preProcs, last, files, preFiles, procs,
                startEnv, resp, nCalls, server>>

\* while (currentDir !== '/' && currentDir.length > 1), and `return null`
\* when the test fails
SearchWhile ==
    /\ search.pc = "while"
    /\ search' = IF search.currentDir # <<>>
                 THEN [search EXCEPT !.pc = "try"]
                 ELSE [search EXCEPT !.pc = "returned", !.result = {}]
    /\ RootFrame

\* the try block: return currentDir when it holds .root.  Neither join nor
\* fs.existsSync throws here, so the catch block, the only assignment to
\* currentDir, never runs and control goes back to the loop test.
SearchTry ==
    /\ search.pc = "try"
    /\ search' = IF search.currentDir \in search.marked
                 THEN [search EXCEPT !.pc = "returned",
                                     !.result = {search.currentDir}]
                 ELSE [search EXCEPT !.pc = "while"]
    /\ RootFrame

RootNext == SearchWhile \/ SearchTry

\* the search keeps running until it returns
RootSpec == RootInit /\ [][RootNext]_vars /\ WF_vars(RootNext)

-----------------------------------------------------------------------------
(* FsSpec: saveExperiment, loadExperiment and listExperiments called
   directly on an experiments directory found on disk. *)

\* the document start_experiment writes for id at time t
StartedDoc(id, t) ==
    [id |-> id, instructions |-> "hover at 5m", status |-> "started",
     startTime |-> toISOString(t), testData |-> <<>>]

\* an experiment.json holding data, one that does not parse, and a directory
\* without experiment.json
FileOf(data) == [exists |-> TRUE, text |-> jsonStringify(data)]
Unparsable == [exists |-> TRUE, text |-> [ok |-> FALSE, members |-> <<>>]]
NoFile == [exists |-> FALSE, text |-> [ok |-> FALSE, members |-> <<>>]]

\* names under experiments/: the experiment ids and one more directory
FsIds == Ids \cup {"tmp"}

\* the experiments directory as the process finds it: per id no directory,
\* a document written at time 0 or 1, or one without startTime; tmp absent,
\* empty, or with a broken experiment.json
InitialFiles ==
    { F \in UNION { [D -> {FileOf(StartedDoc("e1", 0)), FileOf(StartedDoc("e2", 1)),
                           FileOf([id |-> "legacy", status |-> "completed"]),
                           Unparsable, NoFile}] : D \in SUBSET FsIds } :
        /\ \A id \in DOMAIN F \cap Ids : F[id].exists /\ F[id].text.ok
        /\ "tmp" \in DOMAIN F => ~F["tmp"].text.ok }

\* values passed to saveExperiment
SaveDocs ==
    { [StartedDoc("e1", 0) EXCEPT !.testData = <<Point(1)>>],
      StartedDoc("e2", 1),
      [id |-> "e1", status |-> "completed"] }

\* fs.readdirSync(experimentsDir): the names in some order
ReaddirOrders(F) ==
    { o \in [1..Cardinality(DOMAIN F) -> DOMAIN F] :
        \A i, j \in DOMAIN o : i # j => o[i] # o[j] }

\* the entry listExperiments pushes for the parsed document data
listEntry(id, data, t) ==
    [id |-> id,
     status |-> IF "status" \in DOMAIN data THEN data.status ELSE "unknown",
     startTime |-> IF "startTime" \in DOMAIN data THEN data.startTime
                   ELSE toISOString(t),
     instructions |-> IF "instructions" \in DOMAIN data THEN data.instructions
                      ELSE ""]

\* the loop of listExperiments over the directory names
RECURSIVE listEntries(_, _, _)
listEntries(F, names, t) ==
    IF names = <<>> THEN <<>>
    ELSE LET id == Head(names)
             data == IF F[id].exists THEN jsonParse(F[id].text) ELSE {}
         IN  (IF data = {} THEN <<>>
              ELSE <<listEntry(id, CHOOSE d \in data : TRUE, t)>>)
                 \o listEntries(F, Tail(names), t)

\* Array.prototype.sort((a, b) => time(b) - time(a)): stable, so an entry
\* goes after the entries before it in the input that are not older
RECURSIVE insertByTime(_, _)
insertByTime(e, sorted) ==
    IF sorted = <<>> THEN <<e>>
    ELSE IF dateGetTime(Head(sorted).startTime) >= dateGetTime(e.startTime)
    THEN <<Head(sorted)>> \o insertByTime(e, Tail(sorted))
    ELSE <<e>> \o sorted

RECURSIVE sortByStartTime(_)
sortByStartTime(entries) ==
    IF entries = <<>> THEN <<>>
    ELSE insertByTime(entries[Len(entries)],
                      sortByStartTime(SubSeq(entries, 1, Len(entries) - 1)))

listExperiments_unsorted(F, names, t) == listEntries(F, names, t)

listExperiments(F, names, t) == sortByStartTime(listEntries(F, names, t))

FsInit ==
    /\ files \in InitialFiles
    /\ preFiles = files
    /\ states = EmptyMap
    /\ now = 0
    /\ ret = {}
    /\ pre = EmptyMap
    /\ preProcs = <<>>
    /\ last = [op |-> "init", id |-> "", arg |-> "", update |-> EmptyMap,
               at |-> 0]
    /\ search = Resolved
    /\ procs = <<>>
    /\ startEnv = EmptyMap
    /\ resp = NoResp
    /\ nCalls = 0
    /\ server = Serving

FsFrame ==
    /\ nCalls < MaxFsCalls
    /\ nCalls' = nCalls + 1
    /\ preFiles' = files
    /\ UNCHANGED <<now, states, pre, procs, preProcs, startEnv, resp, search,
                   server>>

SaveExperiment(id, data) ==
    /\ files' = saveExperiment(files, id, data)
    /\ ret' = {}
    /\ last' = OpUpd("save", id, data)
    /\ FsFrame

LoadExperiment(id) ==
    /\ ret' = loadExperiment(files, id)
    /\ last' = Op("load", id)
    /\ UNCHANGED files
    /\ FsFrame

ListExperiments(names) ==
    /\ ret' = listExperiments(files, names, now)
    /\ last' = OpUpd("list", "", names)
    /\ UNCHANGED files
    /\ FsFrame

FsNext ==
    \/ Tick
    \/ \E id \in Ids, data \in SaveDocs : SaveExperiment(id, data)
    \/ \E id \in FsIds : LoadExperiment(id)
    \/ \E names \in ReaddirOrders(files) : ListExperiments(names)

FsSpec == FsInit /\ [][FsNext]_vars

-----------------------------------------------------------------------------
(* TeleSpec: the follow-up simulation run of an experiment
   (runDroneImplementation), the telemetry batches its stdout listener POSTs
   and what the HTTP layer makes of them. *)

\* the listener POSTs its buffer when it holds this many points
BatchSize == 10

\* telemetry points one simulation run emits in a behaviour of TeleSpec
MaxParsed == 21

\* One line of the simulation's stdout, by what the listener reads of it:
\* whether it starts with 'timestamp,', whether Number makes a number of its
\* first field, and the numbers of its first four fields.
SampleLine(n) ==
    [header |-> FALSE, numeric |-> TRUE,
     timestamp |-> n, posX |-> n, posY |-> 0, posZ |-> 5]
HeaderLine ==
    [header |-> TRUE, numeric |-> FALSE,
     timestamp |-> 0, posX |-> 0, posY |-> 0, posZ |-> 0]
TextLine ==
    [header |-> FALSE, numeric |-> FALSE,
     timestamp |-> 0, posX |-> 0, posY |-> 0, posZ |-> 0]

\* the lines of a chunk given by the kinds of its lines, the simulation
\* having emitted n samples before: its samples are numbered on from n
RECURSIVE LinesOf(_, _)
LinesOf(kinds, n) ==
    IF kinds = <<>> THEN <<>>
    ELSE IF Head(kinds) = "sample"
    THEN <<SampleLine(n + 1)>> \o LinesOf(Tail(kinds), n + 1)
    ELSE <<IF Head(kinds) = "header" THEN HeaderLine ELSE TextLine>>
            \o LinesOf(Tail(kinds), n)

\* the chunks the simulation delivers, as data.toString().trim().split('\n')
\* cuts them
DroneChunks ==
    { <<"sample">>,
      <<"header", "sample", "sample", "sample">>,
      <<"sample", "text", "sample">> }

\* const testDataPoint = {position, controls, timestamp}
testDataPoint(line) ==
    [position |-> [x |-> line.posX, y |-> line.posY, z |-> line.posZ],
     controls |-> [throttle |-> 0, pitch |-> 0, roll |-> 0],
     timestamp |-> toISOString(line.timestamp)]

\* fetch('http://localhost:3000/api/store_test_data?id=' + experimentId,
\* {method: 'POST', body: JSON.stringify({testData})}): the request.  The
\* body is carried as express.json() hands it to a handler.
Post(experimentId, testData) ==
    [method |-> "POST", path |-> <<"api", "store_test_data">>,
     id |-> experimentId, body |-> [isArray |-> TRUE, testData |-> testData]]

\* the entries of server.posts for the requests a listener of the
\* simulation of process `run` issued: not yet delivered, no handler yet
Issued(run, reqs) ==
    [k \in DOMAIN reqs |->
        [run |-> run, req |-> reqs[k], fate |-> "pending", handler |-> ""]]

\* a stdout listener that does not empty its buffer after a POST
RECURSIVE onDroneStdout_keepBuffer(_, _, _)
onDroneStdout_keepBuffer(r, experimentId, lines) ==
    IF lines = <<>> THEN r
    ELSE LET line == Head(lines)
         IN  IF line.header
             THEN onDroneStdout_keepBuffer(r, experimentId, Tail(lines))
             ELSE IF ~line.numeric THEN [r EXCEPT !.threw = TRUE]
             ELSE LET pushed == Append(r.testData, testDataPoint(line))
                      r1 == IF Len(pushed) >= BatchSize
                            THEN [r EXCEPT !.testData = pushed,
                                           !.posts = Append(@, Post(experimentId, pushed)),
                                           !.parsed = @ + 1]
                            ELSE [r EXCEPT !.testData = pushed, !.parsed = @ + 1]
                  IN  onDroneStdout_keepBuffer(r1, experimentId, Tail(lines))

\* the loop of droneProcess.stdout.on('data') over the lines of a chunk.
\* r holds the buffer testData, the POSTs this call issued, the number of
\* points built and whether the listener threw: new Date(NaN).toISOString() throws a
\* RangeError on a line whose first field is no number, and the rest of the
\* chunk is not read.
RECURSIVE onDroneStdout(_, _, _)
onDroneStdout(r, experimentId, lines) ==
    IF lines = <<>> THEN r
    ELSE LET line == Head(lines)
         IN  IF line.header THEN onDroneStdout(r, experimentId, Tail(lines))
             ELSE IF ~line.numeric THEN [r EXCEPT !.threw = TRUE]
             ELSE LET pushed == Append(r.testData, testDataPoint(line))
                      r1 == IF Len(pushed) >= BatchSize
                            THEN [r EXCEPT !.testData = <<>>,
                                           !.posts = Append(@, Post(experimentId, pushed)),
                                           !.parsed = @ + 1]
                            ELSE [r EXCEPT !.testData = pushed, !.parsed = @ + 1]
                  IN  onDroneStdout(r1, experimentId, Tail(lines))

\* the routes the application serves: GET /api/health, the experiment router
\* under /api/experiment, and notFoundHandler for every other request
RouterRoutes ==
    { <<"POST", "start_experiment">>, <<"POST", "store_test_data">>,
      <<"GET", "get_test_data">>, <<"GET", "get_experiment_state">>,
      <<"GET", "list_experiments">>, <<"POST", "execute_drone">>,
      <<"POST", "stop_experiment">> }

route(method, path) ==
    IF method = "GET" /\ path = <<"api", "health">> THEN "health"
    ELSE IF /\ Len(path) = 3
            /\ SubSeq(path, 1, 2) = <<"api", "experiment">>
            /\ <<method, path[3]>> \in RouterRoutes
    THEN path[3]
    ELSE "notFoundHandler"

\* frame of an event of TeleSpec: no request of a client is answered by it
TeleFrame ==
    /\ resp' = NoResp
    /\ pre' = states
    /\ preProcs' = procs
    /\ preFiles' = files
    /\ UNCHANGED <<now, ret, search, startEnv, nCalls>>

\* droneProcess.stdout.on('data'): an exception leaving the listener is
\* uncaught and ends the server process
DroneStdout(p, kinds) ==
    /\ server.up
    /\ procs[p].drone = "running"
    /\ LET r == onDroneStdout([testData |-> procs[p].testData,
                               posts |-> <<>>,
                               parsed |-> procs[p].parsed, threw |-> FALSE],
                              procs[p].id, LinesOf(kinds, procs[p].parsed))
       IN  /\ r.parsed <= MaxParsed
           /\ procs' = [procs EXCEPT ![p].testData = r.testData,
                                     ![p].parsed = r.parsed]
           /\ server' = [up |-> ~r.threw,
                         posts |-> server.posts \o Issued(p, r.posts)]
    /\ last' = EvChunk("drone_stdout", procs[p].id, kinds)
    /\ UNCHANGED <<states, files>>
    /\ TeleFrame

\* the i-th POST reaches the application: it is handed to the handler its
\* method and path select; the response is read by nobody
PostDelivered(i) ==
    /\ server.up
    /\ server.posts[i].fate = "pending"
    /\ LET req == server.posts[i].req
           handler == route(req.method, req.path)
       IN  /\ files' = IF handler = "store_test_data"
                       THEN storeTestData(files, req.id, req.body).files
                       ELSE files
           /\ server' = [server EXCEPT !.posts[i].fate = "handled",
                                       !.posts[i].handler = handler]
           /\ last' = Ev("post_delivered", req.id, handler)
    /\ UNCHANGED <<states, procs>>
    /\ TeleFrame

\* the i-th POST fails (no connection): .catch(console.error)
PostFails(i) ==
    /\ server.up
    /\ server.posts[i].fate = "pending"
    /\ server' = [server EXCEPT !.posts[i].fate = "failed"]
    /\ last' = Ev("post_failed", server.posts[i].req.id, "")
    /\ UNCHANGED <<states, procs, files>>
    /\ TeleFrame

\* a machine on which the template is staged and the agent executable found
AgentReady == [staging |-> "ok", claude |-> "ok"]

TeleNext ==
    \/ \E body \in [id : Ids, instructions : Instructions] :
          server.up /\ StartExperiment(body, AgentReady)
    \/ \E p \in DOMAIN procs : server.up /\ ProcClose(p, "0", FALSE)
    \/ \E p \in DOMAIN procs, kinds \in DroneChunks : DroneStdout(p, kinds)
    \/ \E i \in DOMAIN server.posts : PostDelivered(i)
    \/ \E i \in DOMAIN server.posts : PostFails(i)
    \/ \E p \in DOMAIN procs, code \in ExitCodes : server.up /\ DroneClose(p, code)

TeleSpec == Init /\ [][TeleNext]_vars

-----------------------------------------------------------------------------
(* RestartSpec: experiments started more than once while their agent
   processes run, on a machine where every start spawns. *)

\* agent processes spawned in a behaviour of RestartSpec
MaxRuns == 2

RestartNext ==
    \/ Tick
    \/ \E body \in [id : Ids, instructions : Instructions] :
          StartExperimentWithin(body, AgentReady, MaxRuns)
    \/ \E p \in DOMAIN procs, chunk \in Chunks : ProcStdout(p, chunk)
    \/ \E p \in DOMAIN procs, code \in ExitCodes : ProcClose(p, code, FALSE)

RestartSpec == Init /\ [][RestartNext]_vars

-----------------------------------------------------------------------------
(* Claims about the registry, checked under RegSpec *)

Called(op, id) == last.op = op /\ last.id = id

MsgTypesOf(log) == [i \in 1..Len(log) |-> log[i].type]

C3_AddMessageUnknown ==
    \A id \in Ids :
        (Called("addMessage", id) /\ id \notin DOMAIN pre) =>
            ret = {} /\ states = pre

\* addMessage was called for an id with no record while another id had one
C3_Witness ==
    \E id \in Ids :
        /\ Called("addMessage", id)
        /\ id \notin DOMAIN pre
        /\ pre # EmptyMap
        /\ ret = {}

\* C4: updateState on an absent id returns null and changes nothing; on an
\* existing id every field the update carries (status, error, startTime) takes
\* the given value, every other field but lastUpdate keeps its value,
\* lastUpdate becomes the time of the call and the log is unchanged.
C4_UpdateState ==
    \A id \in Ids :
        Called("updateState", id) =>
            IF id \notin DOMAIN pre
            THEN ret = {} /\ states = pre
            ELSE /\ DOMAIN states = DOMAIN pre
                 /\ \A k \in DOMAIN pre \ {id} : states[k] = pre[k]
                 /\ \A f \in {"status", "error", "startTime", "id"} :
                       states[id][f] = IF f \in DOMAIN last.update
                                       THEN last.update[f] ELSE pre[id][f]
                 /\ states[id].lastUpdate = last.at
                 /\ states[id].messages = pre[id].messages
                 /\ ret = {states[id]}

\* updateState has overwritten status and error of a record with a log, at a
\* later time than its last update
C4_Witness ==
    \E id \in DOMAIN pre :
        /\ Called("updateState", id)
        /\ last.update = [status |-> "error", error |-> <<"boom">>]
        /\ pre[id].status = "running"
        /\ pre[id].messages # <<>>
        /\ pre[id].lastUpdate < last.at
        /\ states[id].status = "error"

-----------------------------------------------------------------------------
(* Claims about the server, checked under Spec.  `last` names the operation
   that led from the registry `pre` and the process table `preProcs` to the
   current state. *)

\* the last operation was the request or child-process event op for id
Did(op, id) == last.op = op /\ last.id = id

LastOf(log) == log[Len(log)]

\* the last operation replaced the status of id's record: a start request
\* that reached createState and spawned, a stop request, or the close of an
\* agent that exited with code 0
Overwrote(id) ==
    \/ Did("start", id) /\ last.arg = "spawned"
    \/ Did("stop", id)
    \/ Did("close", id) /\ last.arg = "0"

\* the last operation ran a handler that appends an error-typed message
AppendedError(id) ==
    \/ Did("error", id)
    \/ Did("close", id) /\ last.arg # "0"
    \/ Did("drone_stderr", id)
    \/ Did("drone_close", id) /\ last.arg # "0"

\* the last operation reset id's record through createState (deleteState has
\* no caller in the server)
Reset(id) ==
    Did("start", id) /\ last.arg \in {"no_claude", "dangling_claude", "spawned"}

\* C5 as stated: once the status of id is error, every operation that is not
\* a reset by createState leaves it error.
C5_Original ==
    \A id \in DOMAIN pre :
        (pre[id].status = "error" /\ ~Reset(id)) => states[id].status = "error"

\* C5 amended: once the status of id is error it stays error under every
\* operation except a start request that spawns (createState: running), a
\* stop request (ended) and the close of an agent that exited with code 0
\* (completed); handlers that log an error while it is error still append it.
C5_Amended ==
    \A id \in DOMAIN pre :
        (pre[id].status = "error" /\ ~Overwrote(id)) =>
            /\ states[id].status = "error"
            /\ AppendedError(id) =>
                  /\ Len(states[id].messages) = Len(pre[id].messages) + 1
                  /\ LastOf(states[id].messages).type = "error"

\* a record already in error (spawn error event) got a further error message
\* appended by the close handler and is still in error
C5_Witness ==
    \E id \in DOMAIN pre :
        /\ Did("close", id) /\ last.arg = "-13"
        /\ pre[id].status = "error"
        /\ states[id].status = "error"
        /\ Len(states[id].messages) = Len(pre[id].messages) + 1
        /\ LastOf(states[id].messages).type = "error"

\* a log entry of a get_experiment_state response that names the directory
\* the staging step missed
NamesMissingDirectory(entry) ==
    /\ entry.status = "error"
    /\ entry.content[1] \in
          {"Source drone-challenge directory not found at: ",
           "Failed to copy drone-challenge directory: "}

\* C6 as stated: a start request that finds no template directory (or whose
\* copy fails) is answered 200, spawns nothing, and get_experiment_state for
\* the id then answers status error with a log entry naming the directory.
C6_Original ==
    \A id \in Ids :
        (Did("start", id)
            /\ startEnv[id].staging \in {"no_template", "copy_failed"}) =>
           /\ resp.code = 200
           /\ procs = preProcs
           /\ LET got == getExperimentState(states, id, now)
              IN  /\ got.code = 200
                  /\ got.status = "error"
                  /\ \E i \in DOMAIN got.log : NamesMissingDirectory(got.log[i])

\* C7: a start request whose staging succeeds but whose agent executable is
\* not on the path, or resolves to a path that does not exist, leaves the
\* record of id in status error with the error described, its log being the
\* "starting" message and the error message, and spawns nothing; a process is
\* only ever spawned by a start request that found the executable.
C7_MissingExecutable ==
    /\ \A id \in Ids :
          (Did("start", id)
              /\ startEnv[id].staging = "ok"
              /\ startEnv[id].claude \in {"not_on_path", "dangling"}) =>
             /\ procs = preProcs
             /\ states[id].status = "error"
             /\ states[id].error # Undefined
             /\ MsgTypesOf(states[id].messages) = <<"info", "error">>
             /\ LastOf(states[id].messages).content = states[id].error
    /\ Len(procs) # Len(preProcs) =>
          /\ Len(procs) = Len(preProcs) + 1
          /\ Did("start", LastOf(procs).id)
          /\ startEnv[LastOf(procs).id] = [staging |-> "ok", claude |-> "ok"]

\* a start request met a dangling executable path: error recorded, no process
C7_Witness ==
    \E id \in DOMAIN states :
        /\ Did("start", id)
        /\ startEnv[id] = [staging |-> "ok", claude |-> "dangling"]
        /\ states[id].status = "error"
        /\ states[id].error = <<"Claude binary not found at: ">> \o ClaudePath
        /\ procs = preProcs

Placeholder(id, t) ==
    Response("get", id, 200, "pending", "",
        <<[type |-> "assistant", content |-> <<"Waiting for agent to start...">>,
           timestamp |-> t, status |-> "pending"]>>)

\* the state right after a valid start request for id that met no usable
\* agent executable
StartedWithoutAgent(id) == Did("start", id) /\ startEnv[id].claude # "ok"

C10_NonZeroExit ==
    \A p \in DOMAIN preProcs :
        (preProcs[p].phase # "closed" /\ procs[p].phase = "closed"
            /\ last.arg # "0") =>
           LET id == procs[p].id
               errorMsg == <<"Claude exited with code ", last.arg>>
           IN  /\ id \in DOMAIN states
               /\ states[id].status = "error"
               /\ states[id].error = errorMsg
               /\ Len(states[id].messages) = Len(pre[id].messages) + 1
               /\ SubSeq(states[id].messages, 1, Len(pre[id].messages))
                     = pre[id].messages
               /\ LastOf(states[id].messages).content = errorMsg
               /\ LastOf(states[id].messages).type = "error"
               /\ procs[p].drone = "none"

\* an agent that had logged output closed with exit code 1
C10_Witness ==
    \E p \in DOMAIN preProcs :
        /\ Did("close", procs[p].id) /\ last.arg = "1"
        /\ preProcs[p].phase = "running"
        /\ procs[p].phase = "closed"
        /\ procs[p].chunks > 0
        /\ procs[p].drone = "none"
        /\ states[procs[p].id].status = "error"
        /\ states[procs[p].id].error = <<"Claude exited with code ", "1">>

\* the follow-up simulation (drone) process of some agent run for id is
\* still running
SimulationRunning(id) ==
    \E p \in DOMAIN procs : procs[p].id = id /\ procs[p].drone = "running"

\* C11 as stated: when the agent exits with code 0 a success message is
\* appended, and the status of id is completed only once the simulation
\* process has completed: it is never completed while that process runs.
C11_Original ==
    \A id \in DOMAIN states :
        /\ (Did("close", id) /\ last.arg = "0") =>
              \E i \in DOMAIN states[id].messages :
                  /\ i > Len(pre[id].messages)
                  /\ states[id].messages[i].type = "success"
        /\ SimulationRunning(id) => states[id].status # "completed"

\* C12 as stated: when the simulation process exits with a non-zero code the
\* status of id becomes error and the error field carries the exit code.
C12_Original ==
    \A id \in DOMAIN states :
        (Did("drone_close", id) /\ last.arg # "0") =>
            /\ states[id].status = "error"
            /\ states[id].error # Undefined
            /\ LastOf(states[id].error) = last.arg

\* C13: an 'error' event of the agent process appends one error message to
\* the log of its id and sets status error and the error field to that
\* message; a close event delivered after it leaves the status error, and so
\* does its absence.
C13_ProcessError ==
    \A p \in DOMAIN preProcs :
        LET id == procs[p].id
        IN  /\ (preProcs[p].phase = "running" /\ procs[p].phase = "failed") =>
                  /\ Did("error", id)
                  /\ id \in DOMAIN pre
                  /\ states[id].status = "error"
                  /\ states[id].messages =
                        Append(pre[id].messages, LastOf(states[id].messages))
                  /\ LastOf(states[id].messages).type = "error"
                  /\ LastOf(states[id].messages).content[1]
                        = "Failed to start Claude process: "
                  /\ states[id].error = LastOf(states[id].messages).content
            /\ (preProcs[p].phase = "failed" /\ procs[p].phase = "closed") =>
                  /\ Did("close", id)
                  /\ states[id].status = "error"

\* the error event of a process came after a stop request had set ended, and
\* no close event has been delivered
C13_Witness ==
    \E p \in DOMAIN preProcs :
        /\ Did("error", procs[p].id)
        /\ pre[procs[p].id].status = "ended"
        /\ procs[p].phase = "failed"
        /\ states[procs[p].id].status = "error"

\* an agent process spawned for id has not closed yet
AgentAlive(id) ==
    \E p \in DOMAIN procs : procs[p].id = id /\ procs[p].phase # "closed"

\* C14: whenever an agent process was spawned for id (template staged,
\* executable present) and every agent process eventually exits, the status
\* get_experiment_state reports for id eventually is completed or error.
C14_EventuallyTerminal ==
    \A id \in Ids :
        AgentAlive(id) ~>
            getExperimentState(states, id, now).status \in {"completed", "error"}

\* the agent spawned for id has exited with code 0 after a stop request and
\* the status reported is completed
C14_Witness ==
    \E p \in DOMAIN procs :
        /\ Did("close", procs[p].id) /\ last.arg = "0"
        /\ startEnv[procs[p].id] = [staging |-> "ok", claude |-> "ok"]
        /\ pre[procs[p].id].status = "ended"
        /\ procs[p].phase = "closed"
        /\ getExperimentState(states, procs[p].id, now).status = "completed"

\* log is log0 followed by n more entries
Extends(log, log0) ==
    Len(log) >= Len(log0) /\ SubSeq(log, 1, Len(log0)) = log0

\* C15: a stop request for an id that has a record (running or not) sets its
\* status to ended and appends exactly one info message; it leaves every
\* child process as it was, and output the agent of id delivers afterwards
\* is still appended to the same log (a stderr chunk: one more entry) while
\* the status stays ended; for an id without a record the registry is left
\* unchanged.
C15_Stop ==
    \A id \in Ids :
        /\ Did("stop", id) =>
              /\ procs = preProcs
              /\ IF id \in DOMAIN pre
                 THEN /\ states[id].status = "ended"
                      /\ Len(states[id].messages) = Len(pre[id].messages) + 1
                      /\ Extends(states[id].messages, pre[id].messages)
                      /\ LastOf(states[id].messages).type = "info"
                      /\ LastOf(states[id].messages).content
                            = <<"Experiment stopped by user">>
                      /\ \A k \in DOMAIN pre \ {id} : states[k] = pre[k]
                 ELSE states = pre
        /\ (id \in DOMAIN pre /\ pre[id].status = "ended") =>
              /\ Did("stdout", id) =>
                    /\ Extends(states[id].messages, pre[id].messages)
                    /\ states[id].status = "ended"
              /\ Did("stderr", id) =>
                    /\ Extends(states[id].messages, pre[id].messages)
                    /\ Len(states[id].messages) = Len(pre[id].messages) + 1
                    /\ LastOf(states[id].messages).type = "warning"
                    /\ states[id].status = "ended"

\* after a stop request on a running record, the agent, still running, wrote
\* to stdout and the text was appended after the "stopped" message
C15_Witness ==
    \E p \in DOMAIN procs :
        LET id == procs[p].id
        IN  /\ Did("stdout", id)
            /\ pre[id].status = "ended"
            /\ LastOf(pre[id].messages).content = <<"Experiment stopped by user">>
            /\ procs[p].phase = "running"
            /\ Len(states[id].messages) = Len(pre[id].messages) + 1
            /\ LastOf(states[id].messages).type = "info"

\* what one stdout line contributes to the log: nothing for an array marker
\* or a message without text, its joined text as info, or a warning quoting
\* the line when it does not parse to a message
RECURSIVE LoggedOf(_)
LoggedOf(lines) ==
    IF lines = <<>> THEN <<>>
    ELSE LET l == Head(lines)
             text == joinText(l.parts)
             entry ==
                 IF l.startsBracket THEN <<>>
                 ELSE IF l.json # "message"
                 THEN <<[content |-> <<"Failed to parse message: ", l.raw>>,
                         type |-> "warning"]>>
                 ELSE IF text = <<>> THEN <<>>
                 ELSE <<[content |-> text, type |-> "info"]>>
         IN  entry \o LoggedOf(Tail(lines))

\* the entries log has after its first n, without their timestamps
Appended(log, n) ==
    [i \in 1..(Len(log) - n) |->
        [content |-> log[n + i].content, type |-> log[n + i].type]]

-----------------------------------------------------------------------------
(* Claims about the telemetry store, checked under StoreSpec *)

\* C17: a store_test_data request answered 200 leaves get_test_data of its id
\* returning what it returned before followed by the points of the request,
\* in their order (so a sequence of them returns all points in request
\* order); for an id without an experiment document, store_test_data with a
\* well-formed body and get_test_data answer 404.
C17_StoreThenGet ==
    \A id \in Ids :
        /\ (Did("store", id) /\ resp.code = 200) =>
              /\ getTestData(preFiles, id).code = 200
              /\ getTestData(files, id).code = 200
              /\ getTestData(files, id).data
                    = getTestData(preFiles, id).data \o last.update
        /\ loadExperiment(files, id) = {} =>
              /\ getTestData(files, id) = [code |-> 404, data |-> <<>>]
              /\ \A body \in StoreBodies :
                    (body.isArray /\ \A i \in DOMAIN body.testData :
                                        validPoint(body.testData[i]))
                        => storeTestData(files, id, body).code = 404

\* two store requests succeeded in a row for one id: get_test_data returns
\* the points of the first followed by the points of the second
C17_Witness ==
    \E id \in Ids :
        /\ Did("store", id) /\ resp.code = 200
        /\ getTestData(preFiles, id).data = <<Point(1)>>
        /\ last.update = <<Point(2), Point(3)>>
        /\ getTestData(files, id).data = <<Point(1), Point(2), Point(3)>>

-----------------------------------------------------------------------------
(* Claims about the store functions, checked under FsSpec *)

\* the directories whose experiment.json exists and parses
Parsable(F) == {id \in DOMAIN F : F[id].exists /\ F[id].text.ok}

\* C18: listExperiments returns (it does not fail) exactly one entry per
\* directory whose experiment.json parses, carrying the document's status,
\* startTime and instructions, and none for a directory whose file is
\* missing or unparsable; entries are in non-increasing order of startTime,
\* so strictly descending when the timestamps are distinct.
C18_List ==
    last.op = "list" =>
        /\ files = preFiles
        /\ Len(ret) = Cardinality(Parsable(files))
        /\ {ret[i].id : i \in DOMAIN ret} = Parsable(files)
        /\ \A i \in DOMAIN ret :
              ret[i] = listEntry(ret[i].id,
                                 CHOOSE d \in loadExperiment(files, ret[i].id) : TRUE,
                                 last.at)
        /\ \A i, j \in DOMAIN ret :
              i < j => dateGetTime(ret[i].startTime) >= dateGetTime(ret[j].startTime)

\* the directory was read in the order e1 (started at 0), tmp (broken file),
\* e2 (started at 1): the list is e2, e1
C18_Witness ==
    /\ last.op = "list"
    /\ last.update = <<"e1", "tmp", "e2">>
    /\ files["tmp"] = Unparsable
    /\ Len(ret) = 2
    /\ ret[1].id = "e2" /\ ret[1].startTime = toISOString(1)
    /\ ret[2].id = "e1" /\ ret[2].startTime = toISOString(0)

-----------------------------------------------------------------------------
(* Claims about the project-root search, checked under RootSpec *)

\* C20 as stated: the project-root search always terminates (by returning
\* the nearest directory holding the marker, or the unresolved root when no
\* ancestor holds it) rather than running forever.
C20_Original == <>(search.pc = "returned")

\* ---------------------------------------------------------------------------
\* Claims about the request handlers, second part (Spec)
\* ---------------------------------------------------------------------------

\* C21: a start_experiment request whose body lacks the id or the instructions
\* is answered with 400 and has no effect: the experiment documents, the
\* registry and the process table are what they were before the request.
C21_InvalidStart ==
    (last.op = "start" /\ last.arg = "invalid")
        => /\ resp.op = "start" /\ resp.code = 400
           /\ files = preFiles
           /\ states = pre
           /\ procs = preProcs

\* an invalid request arrives when a document, a record and a running agent
\* already exist
C21_Witness ==
    /\ last.op = "start" /\ last.arg = "invalid"
    /\ resp.code = 400
    /\ \E id \in Ids : id \in DOMAIN files /\ id \in DOMAIN states
    /\ \E p \in 1..Len(procs) : procs[p].phase = "running"

-----------------------------------------------------------------------------
(* Claims about the persisted experiment document, checked under StoreSpec *)

\* the document held by experiment.json of id in F
DocOf(F, id) == CHOOSE d \in loadExperiment(F, id) : TRUE

\* C22: whatever request is served, a persisted experiment keeps the
\* startTime it was created with and its testData only grows at the end,
\* also when start_experiment is issued again with its id.
C22_Original ==
    \A id \in Ids :
        (loadExperiment(preFiles, id) # {} /\ loadExperiment(files, id) # {})
            => /\ DocOf(files, id).startTime = DocOf(preFiles, id).startTime
               /\ Extends(testDataOf(DocOf(files, id)),
                          testDataOf(DocOf(preFiles, id)))

-----------------------------------------------------------------------------
(* Claims about the records of different experiments, checked under Spec *)

\* the record of B is in S2 what it was in S1 (present and equal, or absent)
SameRecord(S1, S2, B) ==
    IF B \in DOMAIN S1 THEN B \in DOMAIN S2 /\ S2[B] = S1[B]
    ELSE B \notin DOMAIN S2

\* C23: a registry operation (createState, addMessage, updateState,
\* deleteState) and a request or child-process event (start, stop, stdout,
\* stderr, error, close, the simulation's events) carried out for id A leaves
\* the record of every other id B as it was.
C23_Frame ==
    \A B \in Ids :
        /\ last.id # B => SameRecord(pre, states, B)
        /\ \A A \in Ids \ {B} :
              /\ SameRecord(states, createState(states, A, now).states, B)
              /\ SameRecord(states, deleteState(states, A).states, B)
              /\ \A type \in MsgTypes :
                    SameRecord(states,
                               addMessage(states, A, <<"x">>, type, now).states, B)
              /\ \A update \in Updates :
                    SameRecord(states,
                               updateState(states, A, update, now).states, B)

\* an event of the agent process of A changed the record of A while B had a
\* record of its own
C23_Witness ==
    \E A \in Ids, B \in Ids :
        /\ A # B
        /\ last.id = A /\ last.op \in {"stdout", "close", "stop"}
        /\ A \in DOMAIN pre /\ B \in DOMAIN pre
        /\ states[A] # pre[A]
        /\ states[B] = pre[B]
        /\ \E p \in 1..Len(procs) : procs[p].id = A

-----------------------------------------------------------------------------
(* Claims about streaming, checked under Spec *)

\* the entries one stdout line adds to the log of id in the registry S
EntriesOfLine(S, id, l) ==
    Appended(onStdoutLines(S, id, <<l>>, now)[id].messages,
             Len(S[id].messages))

\* C24: output of the agent never changes the status of its record and never
\* ends the run.  A stdout line adds at most one entry: an info entry with
\* the joined text when it parses to a message whose text is not empty, a
\* warning quoting the line when it does not parse to a message (JSON.parse
\* throws, or the value has no list of content parts), nothing when it is an
\* array marker or its text is empty.  A stderr chunk adds exactly one
\* warning entry whose content is the chunk.
C24_Streaming ==
    \A id \in DOMAIN pre :
        /\ (Did("stdout", id) \/ Did("stderr", id)) =>
              /\ states[id].status = pre[id].status
              /\ states[id].error = pre[id].error
              /\ Extends(states[id].messages, pre[id].messages)
              /\ \A p \in DOMAIN preProcs :
                    /\ procs[p].phase = preProcs[p].phase
                    /\ procs[p].drone = preProcs[p].drone
        /\ Did("stdout", id) =>
              /\ Len(states[id].messages) - Len(pre[id].messages)
                    <= Len(last.update)
              /\ \A i \in (Len(pre[id].messages) + 1)..Len(states[id].messages) :
                    states[id].messages[i].type \in {"info", "warning"}
        /\ Did("stderr", id) =>
              Appended(states[id].messages, Len(pre[id].messages))
                 = <<[content |-> <<last.arg>>, type |-> "warning"]>>
        /\ id \in DOMAIN states =>
              \A l \in Lines :
                 LET entries == EntriesOfLine(states, id, l)
                     text == joinText(l.parts)
                 IN  /\ onStdoutLines(states, id, <<l>>, now)[id].status
                           = states[id].status
                     /\ Len(entries) <= 1
                     /\ IF l.startsBracket THEN entries = <<>>
                        ELSE IF l.json # "message"
                        THEN entries =
                               <<[content |-> <<"Failed to parse message: ", l.raw>>,
                                  type |-> "warning"]>>
                        ELSE IF text = <<>> THEN entries = <<>>
                        ELSE entries = <<[content |-> text, type |-> "info"]>>

\* a chunk of three lines arrived for a record that a stop request had set to
\* ended: two entries were appended and the status is still ended
C24_Witness ==
    \E id \in DOMAIN pre :
        /\ Did("stdout", id)
        /\ Len(last.update) = 3
        /\ pre[id].status = "ended"
        /\ states[id].status = "ended"
        /\ Len(states[id].messages) = Len(pre[id].messages) + 2

-----------------------------------------------------------------------------
(* Claims about the telemetry of the simulation run, checked under TeleSpec *)

\* the batches the simulation run of process p POSTed, in the order they
\* were issued
SentBy(p) ==
    LET own == SelectSeq(server.posts, LAMBDA e : e.run = p)
    IN  [i \in DOMAIN own |-> own[i].req.body.testData]

\* the points number from..to of a run, in the order they were received
PointsRange(from, to) == [k \in 1..(to - from + 1) |-> Point(from + k - 1)]

\* C25: the points the simulation run parsed are forwarded in batches of
\* exactly ten, in the order they were received: the i-th batch holds the
\* points 10(i-1)+1 .. 10i and the buffer holds the points received since
\* the last batch, so no point is forwarded twice; a batch POST that fails
\* changes neither the registry nor the documents nor the run, and batches
\* keep being issued after it.
C25_Batches ==
    /\ \A p \in DOMAIN procs :
          LET sent == SentBy(p)
          IN  /\ \A i \in DOMAIN sent :
                    /\ Len(sent[i]) = BatchSize
                    /\ sent[i]
                          = PointsRange(BatchSize * (i - 1) + 1, BatchSize * i)
              /\ Len(procs[p].testData) < BatchSize
              /\ procs[p].testData
                    = PointsRange(BatchSize * Len(sent) + 1, procs[p].parsed)
    /\ last.op = "post_failed" =>
          /\ states = pre
          /\ files = preFiles
          /\ procs = preProcs

\* the first batch failed, and a chunk of three samples that found eight
\* points in the buffer then issued the second batch and kept one point
C25_Witness ==
    \E p \in DOMAIN procs :
        /\ Did("drone_stdout", procs[p].id)
        /\ Len(preProcs[p].testData) = 8
        /\ Len(procs[p].testData) = 1
        /\ Len(server.posts) = 2
        /\ server.posts[1].fate = "failed"
        /\ server.posts[2].fate = "pending"
        /\ server.posts[2].req.body.testData = PointsRange(11, 20)

\* the number of points in a sequence of batches
RECURSIVE Forwarded(_)
Forwarded(batches) ==
    IF batches = <<>> THEN 0
    ELSE Len(Head(batches)) + Forwarded(Tail(batches))

\* C26: every telemetry batch the simulation run forwards for id that
\* reaches the application is handled by the store_test_data handler and its
\* points are then part of what get_test_data returns for id.
C26_Original ==
    \A i \in DOMAIN server.posts :
        server.posts[i].fate = "handled" =>
            /\ server.posts[i].handler = "store_test_data"
            /\ \A k \in DOMAIN server.posts[i].req.body.testData :
                  \E j \in DOMAIN getTestData(files, server.posts[i].req.id).data :
                      getTestData(files, server.posts[i].req.id).data[j]
                          = server.posts[i].req.body.testData[k]

\* C29: the number of points a run has forwarded is a multiple of ten and is
\* ten times the integer part of (points parsed / 10); when the simulation
\* process has closed, the points parsed since the last batch (fewer than
\* ten) are still in the buffer and in no batch.
C29_Leftover ==
    \A p \in DOMAIN procs :
        LET sent == SentBy(p)
        IN  /\ Forwarded(sent) % BatchSize = 0
            /\ Forwarded(sent) = BatchSize * (procs[p].parsed \div BatchSize)
            /\ procs[p].drone = "closed" =>
                  /\ Len(procs[p].testData) = procs[p].parsed % BatchSize
                  /\ \A k \in DOMAIN procs[p].testData :
                        \A i \in DOMAIN sent :
                            \A j \in DOMAIN sent[i] :
                                sent[i][j] # procs[p].testData[k]

\* the simulation closed after thirteen points: ten were forwarded and three
\* are left in the buffer
C29_Witness ==
    \E p \in DOMAIN procs :
        /\ Did("drone_close", procs[p].id)
        /\ procs[p].drone = "closed"
        /\ procs[p].parsed = 13
        /\ Len(SentBy(p)) = 1
        /\ procs[p].testData = PointsRange(11, 13)

-----------------------------------------------------------------------------
(* Claims about starting an experiment again, checked under RestartSpec *)

\* the agent processes of id that run in the process table P
RunningFor(P, id) == {p \in DOMAIN P : P[p].id = id /\ P[p].phase = "running"}

\* C27: a start_experiment for an id whose agent process is still running is
\* answered like a first one: a second agent process is spawned next to the
\* first, which keeps running, and the record of id is the one a first start
\* creates (the status and the log of the first run are gone); from then on
\* a stdout chunk or an exit of either process is applied to that record.
C27_SecondStart ==
    \A id \in Ids :
        /\ (Did("start", id) /\ RunningFor(preProcs, id) # {}) =>
              /\ resp.code = 200 /\ last.arg = "spawned"
              /\ Len(procs) = Len(preProcs) + 1
              /\ procs[Len(procs)] = NewProc(id)
              /\ \A p \in DOMAIN preProcs : procs[p] = preProcs[p]
              /\ states[id]
                    = startAgent(EmptyMap, <<>>, id, ensureExperimentDir(id),
                                 AgentReady, states[id].startTime).states[id]
        /\ \A p \in DOMAIN preProcs :
              (procs[p].id = id /\ id \in DOMAIN pre) =>
                  /\ (Did("stdout", id) /\ procs[p].chunks > preProcs[p].chunks) =>
                        Appended(states[id].messages, Len(pre[id].messages))
                            = LoggedOf(last.update)
                  /\ (Did("close", id) /\ procs[p].phase # preProcs[p].phase) =>
                        states[id].status
                            = IF last.arg = "0" THEN "completed" ELSE "error"

\* e1 was started twice; the first process then wrote a line into the record
\* the second start created, while the second process runs
C27_Witness ==
    /\ Len(procs) = 2
    /\ procs[1].id = procs[2].id
    /\ Did("stdout", procs[1].id)
    /\ procs[1].chunks = 1 /\ preProcs[1].chunks = 0
    /\ procs[2].phase = "running" /\ procs[2].chunks = 0
    /\ Len(states[procs[1].id].messages) > Len(pre[procs[1].id].messages)

-----------------------------------------------------------------------------
(* Claims about stopping, second part (Spec) *)

\* C28: the status ended that stop_experiment writes is not final: when the
\* agent process closes after the stop, its close listener replaces the
\* status by completed (exit code 0) or by error (any other exit code).
C28_EndedOverwritten ==
    \A id \in DOMAIN pre :
        (Did("close", id) /\ pre[id].status = "ended") =>
            /\ states[id].status
                  = IF last.arg = "0" THEN "completed" ELSE "error"
            /\ states[id].status # "ended"
            /\ last.arg # "0" =>
                  states[id].error = <<"Claude exited with code ", last.arg>>

\* a stopped experiment whose agent then exited with code 0 is completed,
\* and the stop message is still the entry before the exit message
C28_Witness ==
    \E id \in DOMAIN pre :
        /\ Did("close", id) /\ last.arg = "0"
        /\ pre[id].status = "ended"
        /\ LastOf(pre[id].messages).content = <<"Experiment stopped by user">>
        /\ states[id].status = "completed"

-----------------------------------------------------------------------------
(* Claims about the telemetry store, second part (StoreSpec) *)

\* the body carries no array, or a point that fails the shape check
Malformed(body) ==
    ~body.isArray \/ \E i \in DOMAIN body.testData : ~validPoint(body.testData[i])

\* C30: store_test_data is all-or-nothing.  A request whose testData is not
\* an array or holds a point failing the position/controls/timestamp check
\* is answered 400 and leaves every experiment document as it was (no
\* prefix of the batch is appended), whether or not the id has a document.
C30_AllOrNothing ==
    /\ \A id \in Ids \cup {"unknown"} :
          \A body \in StoreBodies :
              Malformed(body) =>
                  storeTestData(files, id, body) = [files |-> files, code |-> 400]
    /\ last.op = "store" =>
          /\ (\E i \in DOMAIN last.update : ~validPoint(last.update[i]))
                => resp.code = 400
          /\ resp.code # 200 => files = preFiles
          /\ resp.code = 200 =>
                getTestData(files, last.id).data
                   = getTestData(preFiles, last.id).data \o last.update

\* a batch whose second point is malformed was refused for an experiment
\* that already held a point, and the point it held is all it holds
C30_Witness ==
    \E id \in Ids :
        /\ Did("store", id)
        /\ last.update = <<Point(1), BadPoint>>
        /\ resp.code = 400
        /\ getTestData(preFiles, id).data = <<Point(1)>>
        /\ getTestData(files, id).data = <<Point(1)>>

====
